---- MODULE Spec2Model ----
(***************************************************************************)
(* Model of pyomo/contrib/preprocessing/plugins/induced_linearity.py:      *)
(* the InducedLinearity transformation and its module-level functions      *)
(* detect_effectively_discrete_vars, determine_valid_values,               *)
(* _bilinear_expressions and _process_bilinear_constraints.                *)
(*                                                                         *)
(* A behaviour starts from a constructed Pyomo model (a sequence of        *)
(* constraints over a fixed set of variables) and either runs              *)
(* InducedLinearity._apply_to on it, or calls the module-level functions   *)
(* directly, in the order of the algorithm flow of the class docstring.    *)
(***************************************************************************)
EXTENDS Integers, Sequences, FiniteSets, TLC

(***************************************************************************)
(* Bounds of the model.                                                    *)
(***************************************************************************)
\* number of constraints of the Pyomo model
NumConstraints == 2
\* number of direct calls of _process_bilinear_constraints in one behaviour
MaxProcessCalls == 2

(***************************************************************************)
(* Variables of the Pyomo model: v and w are continuous, d1..d3 binary,    *)
(* i is an integer variable with bounds 2..3.                              *)
(***************************************************************************)
Continuous == {"v", "w"}
Binary == {"d1", "d2", "d3"}
BoundedInteger == {"i"}
Vars == Continuous \cup Binary \cup BoundedInteger

\* Var.is_continuous()
is_continuous(var) == var \in Continuous

\* the declared finite domain of a discrete variable
Domain(var) ==
    IF var \in Binary THEN {0, 1}
    ELSE IF var \in BoundedInteger THEN {3, 4}
    ELSE {}

\* Python's None; an optional value is <<>> (None) or <<x>>
None == <<>>

(***************************************************************************)
(* Expressions.  A constraint body is a sum of terms; a term is a product  *)
(* of variables (fn = "prod") or a transcendental function applied to      *)
(* such a product (fn = "exp").  Coefficients are +1 on discrete           *)
(* variables and -1 on continuous ones; they play no role in the code.     *)
(***************************************************************************)
Prod(vs) == [fn |-> "prod", vars |-> vs]
Exp(vs) == [fn |-> "exp", vars |-> vs]

RECURSIVE MaxDegree(_)
MaxDegree(body) ==
    IF body = <<>> THEN 0
    ELSE LET d == Len(Head(body).vars)
             r == MaxDegree(Tail(body))
         IN IF d > r THEN d ELSE r

\* expr.polynomial_degree(): None for a non-polynomial expression
polynomial_degree(body) ==
    IF \E i \in 1..Len(body) : body[i].fn = "exp"
    THEN None
    ELSE <<MaxDegree(body)>>

IsLinearTerm(t) == t.fn = "prod" /\ Len(t.vars) = 1
IsQuadraticTerm(t) == t.fn = "prod" /\ Len(t.vars) = 2

RECURSIVE LinearVarsOf(_)
LinearVarsOf(body) ==
    IF body = <<>> THEN <<>>
    ELSE IF IsLinearTerm(Head(body))
         THEN <<Head(body).vars[1]>> \o LinearVarsOf(Tail(body))
         ELSE LinearVarsOf(Tail(body))

RECURSIVE QuadraticVarsOf(_)
QuadraticVarsOf(body) ==
    IF body = <<>> THEN <<>>
    ELSE IF IsQuadraticTerm(Head(body))
         THEN <<Head(body).vars>> \o QuadraticVarsOf(Tail(body))
         ELSE QuadraticVarsOf(Tail(body))

\* generate_standard_repn(expr): the linear variables, the quadratic
\* variable pairs, and whether a nonlinear residual is left
generate_standard_repn(body) ==
    [linear_vars |-> LinearVarsOf(body),
     quadratic_vars |-> QuadraticVarsOf(body),
     nonlinear_expr |-> \E i \in 1..Len(body) :
                           ~IsLinearTerm(body[i]) /\ ~IsQuadraticTerm(body[i])]

(***************************************************************************)
(* Constraints.  Bounds are in units of 1e-6, so that the equality         *)
(* tolerance 1E-6 of _apply_to is one unit.                                *)
(***************************************************************************)
equality_tolerance == 1

Constr(b, lo, up, act, where) ==
    [body |-> b, lower |-> lo, upper |-> up, active |-> act, parent |-> where]

Eq(b) == Constr(b, <<0>>, <<0>>, TRUE, "model")
Le(b) == Constr(b, None, <<10>>, TRUE, "model")

\* the constraints a model is built from
ConstraintPool ==
    { \* discreteness-inducing equalities and their near misses
      Eq(<<Prod(<<"d1">>), Prod(<<"d2">>), Prod(<<"d3">>), Prod(<<"v">>)>>),
      Eq(<<Prod(<<"d1">>), Prod(<<"d2">>), Prod(<<"v">>)>>),
      Eq(<<Prod(<<"d3">>), Prod(<<"w">>)>>),
      Eq(<<Prod(<<"i">>), Prod(<<"v">>)>>),
      Constr(<<Prod(<<"d2">>), Prod(<<"d3">>), Prod(<<"v">>)>>,
             <<0>>, <<1>>, TRUE, "model"),
      Constr(<<Prod(<<"d1">>), Prod(<<"v">>)>>, <<0>>, <<2>>, TRUE, "model"),
      Le(<<Prod(<<"d1">>), Prod(<<"v">>)>>),
      Constr(<<Prod(<<"d1">>), Prod(<<"w">>)>>, <<0>>, None, TRUE, "model"),
      Constr(<<Prod(<<"d2">>), Prod(<<"w">>)>>, <<0>>, <<0>>, FALSE, "model"),
      Constr(<<Prod(<<"d1">>), Prod(<<"d2">>), Prod(<<"w">>)>>,
             <<0>>, <<0>>, TRUE, "Block"),
      Constr(<<Prod(<<"d2">>), Prod(<<"v">>)>>, <<0>>, <<0>>, TRUE, "Disjunct"),
      Eq(<<Prod(<<"v">>), Prod(<<"w">>), Prod(<<"d1">>)>>),
      Eq(<<Prod(<<"v">>)>>),
      Eq(<<Prod(<<"d1">>), Prod(<<"d2">>)>>),
      Eq(<<>>),
      \* constraints with products
      Le(<<Prod(<<"v", "w">>), Prod(<<"d1">>)>>),
      Le(<<Prod(<<"v", "w">>)>>),
      Eq(<<Prod(<<"w", "v">>), Prod(<<"v", "w">>), Prod(<<"v", "d1">>)>>),
      Le(<<Prod(<<"v", "v">>), Prod(<<"w">>)>>),
      Le(<<Prod(<<"v", "w", "d1">>), Prod(<<"v", "w">>)>>),
      Le(<<Prod(<<"v", "w", "d1">>)>>),
      Le(<<Exp(<<"v", "w">>), Prod(<<"v", "d1">>)>>),
      Le(<<Exp(<<"v", "w">>)>>),
      Constr(<<Prod(<<"w", "v">>), Prod(<<"d2">>)>>, None, <<10>>, FALSE, "model"),
      Constr(<<Prod(<<"w", "d3">>), Prod(<<"v">>)>>, None, <<10>>, TRUE, "Block"),
      Constr(<<Prod(<<"w", "v">>), Prod(<<"d1">>)>>, None, <<10>>, TRUE, "Disjunct")
    }

CIds == 1..NumConstraints

(***************************************************************************)
(* State.                                                                  *)
(***************************************************************************)
VARIABLES
    constrs,                \* the model's constraints, by index
    model_vars,             \* the model's variables
    pc,                     \* position of the running code
    caller,                 \* who called the running function
    exc,                    \* the exception that propagated, or "none"
    effectively_discrete,   \* detect_effectively_discrete_vars: var -> list
    det_i,                  \* detect_effectively_discrete_vars: loop position
    previous_records,       \* the records an earlier run returned, if any
    block,                  \* determine_valid_values: its block argument
    var_to_constraints_map, \* determine_valid_values: its local map
    valid_values,           \* what determine_valid_values produced
    bilinear_map,           \* _bilinear_expressions: var -> var -> set object
    sets,                   \* the ComponentSet objects, by object identity
    be_i,                   \* _bilinear_expressions: position in the constraints
    be_j,                   \* _bilinear_expressions: position in quadratic_vars
    pbc_args,               \* _process_bilinear_constraints: its arguments
    pbc_i,                  \* _process_bilinear_constraints: loop position
    reformulated,           \* the calls of _reformulate_case_2, in order
    case_1_calls,           \* the number of calls of _reformulate_case_1
    ncalls,                 \* direct calls of _process_bilinear_constraints
    os_environ,             \* os.environ: name -> None (unset) or <<content>>
    original_state,         \* _original_state: the (key, value) items, in order
    env_exc,                \* the exception the last environment call raised
    last_op,                \* the last call made on the CtypesEnviron instance
    env_ops,                \* the number of environment steps taken
    before_first,           \* name -> what it was before its first set/del
    ever_touched,           \* the names set or deleted through the instance
    direct_names            \* the names changed directly in os.environ

vars == <<constrs, model_vars, pc, caller, exc, effectively_discrete, det_i,
          previous_records,
          block, var_to_constraints_map, valid_values, bilinear_map, sets,
          be_i, be_j, pbc_args, pbc_i, reformulated, case_1_calls, ncalls,
          os_environ, original_state, env_exc, last_op, env_ops,
          before_first, ever_touched, direct_names>>

model_state == <<constrs, model_vars>>
detect_state == <<effectively_discrete, det_i, previous_records>>
resolve_state == <<block, var_to_constraints_map, valid_values>>
bilinear_state == <<bilinear_map, sets, be_i, be_j>>
process_state == <<pbc_args, pbc_i, reformulated, case_1_calls, ncalls>>
env_state == <<os_environ, original_state, env_exc, last_op, env_ops,
               before_first, ever_touched, direct_names>>

\* the names of the environment variables
Names == {"X", "Y"}

\* no CtypesEnviron instance is in use
EnvIdle ==
    /\ os_environ = [n \in Names |-> <<>>]
    /\ original_state = <<>>
    /\ env_exc = "none"
    /\ last_op = "none"
    /\ env_ops = 0
    /\ before_first = [n \in Names |-> <<>>]
    /\ ever_touched = {}
    /\ direct_names = {}

\* an empty ComponentMap
EmptyMap == <<>>

\* ComponentMap.get(key, default)
Get(map, key, default) == IF key \in DOMAIN map THEN map[key] ELSE default

\* map[key] = val
Put(map, key, val) ==
    [k \in DOMAIN map \cup {key} |-> IF k = key THEN val ELSE map[k]]

Range(seq) == {seq[i] : i \in 1..Len(seq)}

\* ComponentSet.add(val): an ordered set, a member is kept once
SetAdd(set, val) == IF val \in Range(set) THEN set ELSE Append(set, val)

RECURSIVE SelectIds(_, _, _)
SelectIds(cs, i, parents) ==
    IF i > Len(cs) THEN <<>>
    ELSE IF cs[i].active /\ cs[i].parent \in parents
         THEN <<i>> \o SelectIds(cs, i + 1, parents)
         ELSE SelectIds(cs, i + 1, parents)

\* block.component_data_objects(Constraint, active=True, descend_into=...):
\* the active constraints of the model and of the sub-blocks whose type is
\* descended into, in declaration order
component_data_objects(cs, descend_into) ==
    SelectIds(cs, 1, {"model"} \cup descend_into)

Init ==
    /\ constrs \in [CIds -> ConstraintPool]
    /\ model_vars = Vars
    /\ pc = "start"
    /\ caller = "none"
    /\ exc = "none"
    /\ effectively_discrete = EmptyMap
    /\ det_i = 0
    /\ previous_records = None
    /\ block = "none"
    /\ var_to_constraints_map = EmptyMap
    /\ valid_values = None
    /\ bilinear_map = EmptyMap
    /\ sets = <<>>
    /\ be_i = 0
    /\ be_j = 0
    /\ pbc_args = None
    /\ pbc_i = 0
    /\ reformulated = <<>>
    /\ case_1_calls = 0
    /\ ncalls = 0
    /\ EnvIdle

(***************************************************************************)
(* detect_effectively_discrete_vars(block, equality_tolerance)             *)
(***************************************************************************)
Abs(n) == IF n < 0 THEN -n ELSE n

\* line 190: the default descent enters Blocks and no Disjunct
detect_constraints == component_data_objects(constrs, {"Block"})

\* lines 205-206: the continuous variables among repn.linear_vars
non_discrete_vars(repn) == SelectSeq(repn.linear_vars, is_continuous)

\* detect_body with the tolerance test written `>=`
detect_body_strict(map, c, tol) ==
    LET constr == constrs[c]
    IN IF constr.lower = None \/ constr.upper = None THEN map
       ELSE IF Abs(constr.lower[1] - constr.upper[1]) >= tol THEN map
       ELSE IF polynomial_degree(constr.body) \notin {<<1>>, <<0>>} THEN map
       ELSE LET repn == generate_standard_repn(constr.body)
            IN IF Len(repn.linear_vars) < 2 THEN map
               ELSE IF Len(non_discrete_vars(repn)) = 1
                    THEN LET var == non_discrete_vars(repn)[1]
                             inducing_constraints == Get(map, var, <<>>)
                         IN Put(map, var, Append(inducing_constraints, c))
                    ELSE map

\* lines 191-213: one iteration of the loop, for constraint c
detect_body(map, c, tol) ==
    LET constr == constrs[c]
    IN IF constr.lower = None \/ constr.upper = None THEN map
       ELSE IF Abs(constr.lower[1] - constr.upper[1]) > tol THEN map
       ELSE IF polynomial_degree(constr.body) \notin {<<1>>, <<0>>} THEN map
       ELSE LET repn == generate_standard_repn(constr.body)
            IN IF Len(repn.linear_vars) < 2 THEN map
               ELSE IF Len(non_discrete_vars(repn)) = 1
                    THEN LET var == non_discrete_vars(repn)[1]
                             inducing_constraints == Get(map, var, <<>>)
                         IN Put(map, var, Append(inducing_constraints, c))
                    ELSE map

\* new_records that keeps the map of an earlier run
new_records_shared(earlier) == earlier

\* line 188: every run starts from a fresh ComponentMap
new_records(earlier) == EmptyMap

\* lines 48-52: _apply_to calls detect_effectively_discrete_vars
apply_to_call ==
    /\ pc = "start"
    /\ caller' = "_apply_to"
    /\ pc' = "detect"
    /\ effectively_discrete' = new_records(effectively_discrete)
    /\ det_i' = 1
    /\ UNCHANGED <<env_state, model_state, exc, previous_records, resolve_state,
                   bilinear_state, process_state>>

\* a direct call of detect_effectively_discrete_vars(model, 1E-6)
detect_call ==
    /\ pc = "start"
    /\ caller' = "direct"
    /\ pc' = "detect"
    /\ effectively_discrete' = new_records(effectively_discrete)
    /\ det_i' = 1
    /\ UNCHANGED <<env_state, model_state, exc, previous_records, resolve_state,
                   bilinear_state, process_state>>

detect_loop ==
    /\ pc = "detect"
    /\ det_i <= Len(detect_constraints)
    /\ effectively_discrete' =
           detect_body(effectively_discrete, detect_constraints[det_i],
                       equality_tolerance)
    /\ det_i' = det_i + 1
    /\ UNCHANGED <<env_state, model_state, pc, caller, exc, previous_records, resolve_state,
                   bilinear_state, process_state>>

\* line 217
detect_return ==
    /\ pc = "detect"
    /\ det_i > Len(detect_constraints)
    /\ pc' = IF caller = "_apply_to" THEN "apply_57"
             ELSE IF previous_records # None THEN "detected_again"
             ELSE "detected"
    /\ UNCHANGED <<env_state, model_state, caller, exc, detect_state, resolve_state,
                   bilinear_state, process_state>>

\* a second direct call of detect_effectively_discrete_vars(model, 1E-6) on
\* the same model; the caller keeps the records of the first call
detect_again_call ==
    /\ pc = "detected"
    /\ previous_records' = <<effectively_discrete>>
    /\ pc' = "detect"
    /\ effectively_discrete' = new_records(effectively_discrete)
    /\ det_i' = 1
    /\ UNCHANGED <<env_state, model_state, caller, exc, resolve_state, bilinear_state,
                   process_state>>

\* line 57: determine_valid_values(eff_discr_vars) passes one argument to
\* a function of two required parameters: Python raises TypeError before
\* the function body runs, and _apply_to has no handler
apply_to_57 ==
    /\ pc = "apply_57"
    /\ exc' = "TypeError"
    /\ pc' = "raised"
    /\ UNCHANGED <<env_state, model_state, caller, detect_state, resolve_state,
                   bilinear_state, process_state>>

(***************************************************************************)
(* determine_valid_values(block, discr_var_to_constrs_map)                 *)
(***************************************************************************)
RECURSIVE Flatten(_)
Flatten(body) ==
    IF body = <<>> THEN <<>> ELSE Head(body).vars \o Flatten(Tail(body))

RECURSIVE Unique(_, _)
Unique(seq, seen) ==
    IF seq = <<>> THEN <<>>
    ELSE IF Head(seq) \in seen THEN Unique(Tail(seq), seen)
         ELSE <<Head(seq)>> \o Unique(Tail(seq), seen \cup {Head(seq)})

\* identify_variables(expr, include_fixed=False): each variable once
identify_variables(body) == Unique(Flatten(body), {})

RECURSIVE add_vars(_, _, _)
add_vars(map, vs, c) ==
    IF vs = <<>> THEN map
    ELSE add_vars(Put(map, Head(vs), Append(Get(map, Head(vs), <<>>), c)),
                  Tail(vs), c)

RECURSIVE add_constrs(_, _)
add_constrs(map, cs) ==
    IF cs = <<>> THEN map
    ELSE add_constrs(add_vars(map, identify_variables(constrs[Head(cs)].body),
                              Head(cs)),
                     Tail(cs))

\* lines 110-116: always the constraints of block.model()
add_constraints_to_map(map, blk) ==
    add_constrs(map, component_data_objects(constrs, {"Block"}))

\* lines 98-107: the function builds a local map, loops over the records
\* doing nothing, and returns None
determine_valid_values(blk, discr_var_to_constrs_map) ==
    LET m0 == IF blk = "Disjunct"
              THEN add_constraints_to_map(EmptyMap, "model")
              ELSE EmptyMap
    IN [var_to_constraints_map |-> add_constraints_to_map(m0, blk),
        result |-> None]

\* a direct call of determine_valid_values(block, effectively_discrete)
determine_valid_values_call ==
    /\ pc = "detected"
    /\ \E blk \in {"model", "Disjunct"} :
          LET r == determine_valid_values(blk, effectively_discrete)
          IN /\ block' = blk
             /\ var_to_constraints_map' = r.var_to_constraints_map
             /\ valid_values' = r.result
    /\ pc' = "resolved"
    /\ UNCHANGED <<env_state, model_state, caller, exc, detect_state, bilinear_state,
                   process_state>>

(***************************************************************************)
(* _bilinear_expressions(model)                                            *)
(***************************************************************************)
\* bilinear_constraints without the descent into Disjuncts
bilinear_constraints_blocks_only == component_data_objects(constrs, {"Block"})

\* lines 159-160: descend_into=(Block, Disjunct)
bilinear_constraints == component_data_objects(constrs, {"Block", "Disjunct"})

\* line 161: skip trivial and linear constraints
skip_constraint(c) == polynomial_degree(constrs[c].body) \in {<<1>>, <<0>>}

\* quadratic_pairs that also takes the product inside a higher-order or
\* transcendental term for a pair
quadratic_pairs_nested(c) ==
    LET body == constrs[c].body
        F[i \in 0..Len(body)] ==
            IF i = 0 THEN <<>>
            ELSE IF Len(body[i].vars) >= 2
                 THEN Append(F[i - 1], <<body[i].vars[1], body[i].vars[2]>>)
                 ELSE F[i - 1]
    IN F[Len(body)]

\* lines 163-164
quadratic_pairs(c) == generate_standard_repn(constrs[c].body).quadratic_vars

\* bilinear_pair that builds one ComponentSet per direction
bilinear_pair_separate_sets(bm, heap, pair, constr) ==
    LET v1 == pair[1]
        v2 == pair[2]
        v1_pairs == Get(bm, v1, EmptyMap)
    IN IF v2 \in DOMAIN v1_pairs
       THEN [bilinear_map |-> bm,
             sets |-> [heap EXCEPT ![v1_pairs[v2]] = SetAdd(@, constr)]]
       ELSE LET bm1 == Put(bm, v1, v1_pairs)
                bm2 == Put(bm1, v2, Get(bm1, v2, EmptyMap))
                bm3 == Put(bm2, v1, Put(bm2[v1], v2, Len(heap) + 1))
                bm4 == Put(bm3, v2, Put(bm3[v2], v1, Len(heap) + 2))
            IN [bilinear_map |-> bm4,
                sets |-> heap \o <<(<<constr>>), (<<constr>>)>>]

\* lines 165-177: one iteration of the loop over repn.quadratic_vars
bilinear_pair(bm, heap, pair, constr) ==
    LET v1 == pair[1]
        v2 == pair[2]
        v1_pairs == Get(bm, v1, EmptyMap)
    IN IF v2 \in DOMAIN v1_pairs
       THEN [bilinear_map |-> bm,
             sets |-> [heap EXCEPT ![v1_pairs[v2]] = SetAdd(@, constr)]]
       ELSE LET bm1 == Put(bm, v1, v1_pairs)
                bm2 == Put(bm1, v2, Get(bm1, v2, EmptyMap))
                constraints_with_bilinear_pair == Len(heap) + 1
                bm3 == Put(bm2, v1, Put(bm2[v1], v2,
                                        constraints_with_bilinear_pair))
                bm4 == Put(bm3, v2, Put(bm3[v2], v1,
                                        constraints_with_bilinear_pair))
            IN [bilinear_map |-> bm4, sets |-> Append(heap, <<constr>>)]

\* a direct call of _bilinear_expressions(model)
bilinear_expressions_call ==
    /\ pc = "resolved"
    /\ pc' = "bilinear"
    /\ bilinear_map' = EmptyMap
    /\ sets' = <<>>
    /\ be_i' = 1
    /\ be_j' = 0
    /\ UNCHANGED <<env_state, model_state, caller, exc, detect_state, resolve_state,
                   process_state>>

\* lines 159-163: the next constraint
bilinear_loop ==
    /\ pc = "bilinear"
    /\ be_i <= Len(bilinear_constraints)
    /\ IF skip_constraint(bilinear_constraints[be_i])
       THEN /\ be_i' = be_i + 1
            /\ UNCHANGED <<pc, be_j>>
       ELSE /\ pc' = "bilinear_pairs"
            /\ be_j' = 1
            /\ UNCHANGED be_i
    /\ UNCHANGED <<env_state, model_state, caller, exc, detect_state, resolve_state,
                   bilinear_map, sets, process_state>>

bilinear_pair_step ==
    /\ pc = "bilinear_pairs"
    /\ be_j <= Len(quadratic_pairs(bilinear_constraints[be_i]))
    /\ LET c == bilinear_constraints[be_i]
           r == bilinear_pair(bilinear_map, sets, quadratic_pairs(c)[be_j], c)
       IN /\ bilinear_map' = r.bilinear_map
          /\ sets' = r.sets
    /\ be_j' = be_j + 1
    /\ UNCHANGED <<env_state, model_state, pc, caller, exc, detect_state, resolve_state,
                   be_i, process_state>>

bilinear_pairs_end ==
    /\ pc = "bilinear_pairs"
    /\ be_j > Len(quadratic_pairs(bilinear_constraints[be_i]))
    /\ pc' = "bilinear"
    /\ be_i' = be_i + 1
    /\ UNCHANGED <<env_state, model_state, caller, exc, detect_state, resolve_state,
                   bilinear_map, sets, be_j, process_state>>

\* line 178
bilinear_expressions_return ==
    /\ pc = "bilinear"
    /\ be_i > Len(bilinear_constraints)
    /\ pc' = "mapped"
    /\ UNCHANGED <<env_state, model_state, caller, exc, detect_state, resolve_state,
                   bilinear_state, process_state>>

(***************************************************************************)
(* _process_bilinear_constraints(v1, v2, discrete_constr,                  *)
(*                               bilinear_constrs)                         *)
(***************************************************************************)
\* lines 126-127, the condition of the commented-out case 1
isolated(c) ==
    LET repn == generate_standard_repn(constrs[c].body)
    IN /\ Len(repn.quadratic_vars) = 1
       /\ Len(repn.linear_vars) = 0
       /\ ~repn.nonlinear_expr

\* reformulation_case with the commented-out test of lines 126-128 enabled
reformulation_case_1_enabled(c) == IF isolated(c) THEN "case_1" ELSE "case_2"

\* lines 122-137: case 1 is commented out, every constraint is case 2
reformulation_case(c) == "case_2"

\* lines 145-146: the body is `pass`
reformulate_case_2(m, v1, v2, discrete_constr, bilinear_constr) == m

\* a direct call with the arguments line 71 would pass
process_bilinear_constraints_call ==
    /\ pc = "mapped"
    /\ ncalls < MaxProcessCalls
    /\ \E v1 \in DOMAIN effectively_discrete :
          \E v2 \in DOMAIN Get(bilinear_map, v1, EmptyMap) :
             pbc_args' = <<[v1 |-> v1, v2 |-> v2,
                            discrete_constr |-> effectively_discrete[v1],
                            bilinear_constrs |-> bilinear_map[v1][v2]]>>
    /\ pbc_i' = 1
    /\ pc' = "process"
    /\ ncalls' = ncalls + 1
    /\ UNCHANGED <<env_state, model_state, caller, exc, detect_state, resolve_state,
                   bilinear_state, reformulated, case_1_calls>>

\* lines 121-137: one iteration of the loop over bilinear_constrs
process_bilinear_constraints_loop ==
    /\ pc = "process"
    /\ pbc_i <= Len(sets[pbc_args[1].bilinear_constrs])
    /\ LET a == pbc_args[1]
           c == sets[a.bilinear_constrs][pbc_i]
       IN IF reformulation_case(c) = "case_1"
          THEN \* lines 141-142: raise NotImplementedError()
               /\ case_1_calls' = case_1_calls + 1
               /\ exc' = "NotImplementedError"
               /\ pc' = "raised"
               /\ UNCHANGED <<model_state, reformulated, pbc_i>>
          ELSE LET m == reformulate_case_2(
                            [constrs |-> constrs, model_vars |-> model_vars],
                            a.v1, a.v2, a.discrete_constr, c)
               IN /\ constrs' = m.constrs
                  /\ model_vars' = m.model_vars
                  /\ reformulated' = Append(reformulated, <<a.v1, a.v2, c>>)
                  /\ pbc_i' = pbc_i + 1
                  /\ UNCHANGED <<pc, exc, case_1_calls>>
    /\ UNCHANGED <<env_state, caller, detect_state, resolve_state, bilinear_state,
                   pbc_args, ncalls>>

\* line 138
process_bilinear_constraints_return ==
    /\ pc = "process"
    /\ pbc_i > Len(sets[pbc_args[1].bilinear_constrs])
    /\ pc' = "mapped"
    /\ UNCHANGED <<env_state, model_state, caller, exc, detect_state, resolve_state,
                   bilinear_state, process_state>>

Next ==
    \/ apply_to_call
    \/ detect_call
    \/ detect_loop
    \/ detect_return
    \/ detect_again_call
    \/ apply_to_57
    \/ determine_valid_values_call
    \/ bilinear_expressions_call
    \/ bilinear_loop
    \/ bilinear_pair_step
    \/ bilinear_pairs_end
    \/ bilinear_expressions_return
    \/ process_bilinear_constraints_call
    \/ process_bilinear_constraints_loop
    \/ process_bilinear_constraints_return

Spec == Init /\ [][Next]_vars

(***************************************************************************)
(* env.py: CtypesEnviron over its one interface, the                       *)
(* _RestorableEnvironInterface of _OSEnviron (Python 3, no C runtime DLL   *)
(* available).  A string is <<type, content>> with type "bytes" or "text"; *)
(* a key is a string whose content is a name.                              *)
(***************************************************************************)
MaxEnvOps == 4

KeyTypes == {"bytes", "text"}
Keys == KeyTypes \X Names

\* the values the environment starts with
InitialValues == {None, <<"">>, <<"a">>}
\* the values a client passes to __setitem__
SetValues == {<<"bytes", "">>, <<"bytes", "b">>, <<"text", "">>, <<"text", "b">>}
\* the values a client assigns in os.environ directly (None: del)
DirectValues == {None, <<"c">>}

\* _as_bytes(val)
as_bytes(val) ==
    IF val # None /\ val[1] = "bytes" THEN val
    ELSE IF val # None THEN <<"bytes", val[2]>>
    ELSE None

\* _as_unicode(val)
as_unicode(val) ==
    IF val # None /\ val[1] = "text" THEN val
    ELSE IF val # None THEN <<"text", val[2]>>
    ELSE None

\* Python's truth value of a string or None
Truthy(val) == val # None /\ val[2] # ""

\* the outcome of a call: the environment, the tracking map, the exception
Outcome(environ, original, e) ==
    [environ |-> environ, original |-> original, exc |-> e]

\* os.environ.get(key, None) for a text key
environ_get(environ, key) ==
    IF environ[key[2]] = None THEN None ELSE <<"text", environ[key[2]][1]>>

\* os.environb.get(key, None) for a bytes key
environb_get(environ, key) ==
    IF environ[key[2]] = None THEN None ELSE <<"bytes", environ[key[2]][1]>>

\* _OSEnviron.getenv
getenv(environ, key) == environb_get(environ, key)

\* _OSEnviron.wgetenv
wgetenv(environ, key) == as_unicode(environ_get(environ, key))

\* the "if not val" branch of putenv_s and wputenv_s: "key in os.environ"
\* encodes the key and raises TypeError for a bytes key
delete_if_present(environ, original, key) ==
    IF key[1] = "bytes" THEN Outcome(environ, original, "TypeError")
    ELSE IF environ[key[2]] # None
         THEN Outcome([environ EXCEPT ![key[2]] = None], original, "none")
         ELSE Outcome(environ, original, "none")

\* _OSEnviron.putenv_s
putenv_s(environ, original, key, val) ==
    IF ~Truthy(val) THEN delete_if_present(environ, original, key)
    ELSE Outcome([environ EXCEPT ![key[2]] = <<val[2]>>], original, "none")

\* _OSEnviron.wputenv_s
wputenv_s(environ, original, key, val) ==
    IF ~Truthy(val) THEN delete_if_present(environ, original, key)
    ELSE Outcome([environ EXCEPT ![key[2]] = <<val[2]>>], original, "none")

\* _RestorableEnvironInterface.__getitem__
getitem(environ, key) ==
    IF key[1] = "text" THEN wgetenv(environ, key) ELSE getenv(environ, key)

HasKey(original, key) == \E i \in 1..Len(original) : original[i][1] = key

\* lines 71-72 and 85-86: the value is stored for a key not yet tracked
record(environ, original, key) ==
    IF ~HasKey(original, key)
    THEN Append(original, <<key, getitem(environ, key)>>)
    ELSE original

\* _RestorableEnvironInterface.__setitem__
setitem(environ, original, key, val) ==
    LET tracked == record(environ, original, key)
    IN IF key[1] = "text"
       THEN IF val # None /\ val[1] = "text"
            THEN wputenv_s(environ, tracked, key, val)
            ELSE wputenv_s(environ, tracked, key, as_unicode(val))
       ELSE IF val # None /\ val[1] = "text"
            THEN wputenv_s(environ, tracked, as_unicode(key), val)
            ELSE putenv_s(environ, tracked, key, val)

\* _RestorableEnvironInterface.__delitem__
delitem(environ, original, key) ==
    LET tracked == record(environ, original, key)
    IN IF key[1] = "text"
       THEN wputenv_s(environ, tracked, key, <<"text", "">>)
       ELSE putenv_s(environ, tracked, key, <<"bytes", "">>)

\* a restore loop that also clears every variable of the environment
restore_items_all(environ, original) ==
    original \o <<(<<(<<"text", "X">>), None>>), (<<(<<"text", "Y">>), None>>)>>

\* line 56: the loop of restore runs over the items of _original_state
restore_items(environ, original) == original

\* lines 56-61: the loop of restore from item i on; an exception ends it
RECURSIVE restore_loop(_, _, _, _)
restore_loop(environ, original, items, i) ==
    IF i > Len(items) THEN Outcome(environ, original, "none")
    ELSE LET key == items[i][1]
             val == items[i][2]
             r == IF ~Truthy(val)
                  THEN IF getitem(environ, key) # None
                       THEN delitem(environ, original, key)
                       ELSE Outcome(environ, original, "none")
                  ELSE setitem(environ, original, key, val)
         IN IF r.exc # "none" THEN r
            ELSE restore_loop(r.environ, r.original, items, i + 1)

\* _RestorableEnvironInterface.restore
restore(environ, original) ==
    LET r == restore_loop(environ, original,
                          restore_items(environ, original), 1)
    IN IF r.exc # "none" THEN r
       ELSE Outcome(r.environ, <<>>, "none")

\* the state after CtypesEnviron(): os.environ equals what the interface
\* reads (lines 42-44) and get_env_dict has no other key (lines 49-53), so
\* the constructor records nothing
InitEnv ==
    /\ constrs = [i \in CIds |-> Eq(<<>>)]
    /\ model_vars = Vars
    /\ pc = "env"
    /\ caller = "none"
    /\ exc = "none"
    /\ effectively_discrete = EmptyMap
    /\ det_i = 0
    /\ previous_records = None
    /\ block = "none"
    /\ var_to_constraints_map = EmptyMap
    /\ valid_values = None
    /\ bilinear_map = EmptyMap
    /\ sets = <<>>
    /\ be_i = 0
    /\ be_j = 0
    /\ pbc_args = None
    /\ pbc_i = 0
    /\ reformulated = <<>>
    /\ case_1_calls = 0
    /\ ncalls = 0
    /\ os_environ \in [Names -> InitialValues]
    /\ original_state = <<>>
    /\ env_exc = "none"
    /\ last_op = "none"
    /\ env_ops = 0
    /\ before_first = [n \in Names |-> <<>>]
    /\ ever_touched = {}
    /\ direct_names = {}

il_state == <<model_state, pc, caller, exc, detect_state, resolve_state,
              bilinear_state, process_state>>

\* the bookkeeping of a set or delete of key through the instance
Touch(key) ==
    /\ before_first' =
           IF before_first[key[2]] = <<>>
           THEN [before_first EXCEPT ![key[2]] = <<os_environ[key[2]]>>]
           ELSE before_first
    /\ ever_touched' = ever_touched \cup {key[2]}

\* CtypesEnviron.__setitem__ (lines 409-411)
env_setitem ==
    \E key \in Keys, val \in SetValues :
        LET r == setitem(os_environ, original_state, key, val)
        IN /\ env_ops < MaxEnvOps
           /\ os_environ' = r.environ
           /\ original_state' = r.original
           /\ env_exc' = r.exc
           /\ last_op' = "set"
           /\ env_ops' = env_ops + 1
           /\ Touch(key)
           /\ UNCHANGED <<il_state, direct_names>>

\* CtypesEnviron.__delitem__ (lines 413-415)
env_delitem ==
    \E key \in Keys :
        LET r == delitem(os_environ, original_state, key)
        IN /\ env_ops < MaxEnvOps
           /\ os_environ' = r.environ
           /\ original_state' = r.original
           /\ env_exc' = r.exc
           /\ last_op' = "del"
           /\ env_ops' = env_ops + 1
           /\ Touch(key)
           /\ UNCHANGED <<il_state, direct_names>>

\* CtypesEnviron.restore, also called by __exit__ (lines 382-399)
env_restore ==
    LET r == restore(os_environ, original_state)
    IN /\ env_ops < MaxEnvOps
       /\ os_environ' = r.environ
       /\ original_state' = r.original
       /\ env_exc' = r.exc
       /\ last_op' = "restore"
       /\ env_ops' = env_ops + 1
       /\ UNCHANGED <<il_state, before_first, ever_touched, direct_names>>

\* a client changes os.environ directly while the instance is alive
env_direct_change ==
    \E n \in Names, v \in DirectValues :
        /\ env_ops < MaxEnvOps
        /\ os_environ' = [os_environ EXCEPT ![n] = v]
        /\ direct_names' = direct_names \cup {n}
        /\ last_op' = "direct"
        /\ env_ops' = env_ops + 1
        /\ UNCHANGED <<il_state, original_state, env_exc, before_first,
                       ever_touched>>

NextEnv ==
    \/ env_setitem
    \/ env_delitem
    \/ env_restore
    \/ env_direct_change

SpecEnv == InitEnv /\ [][NextEnv]_vars

(***************************************************************************)
(* Reference definitions used to state the properties.                     *)
(***************************************************************************)
AfterDetect == pc \notin {"start", "detect"}
AfterResolve == pc \in {"resolved", "bilinear", "bilinear_pairs", "mapped", "process"}
AfterBilinear == pc \in {"mapped", "process"}

\* the top-level product terms of a constraint body over the pair v1, v2
HasProduct(c, v1, v2) ==
    \E i \in 1..Len(constrs[c].body) :
        /\ constrs[c].body[i].fn = "prod"
        /\ constrs[c].body[i].vars \in {<<v1, v2>>, <<v2, v1>>}

\* c is in the set the bilinear map holds for (v1, v2)
Indexed(c, v1, v2) ==
    /\ v1 \in DOMAIN bilinear_map
    /\ v2 \in DOMAIN bilinear_map[v1]
    /\ c \in Range(sets[bilinear_map[v1][v2]])

\* the values the inducing constraint c implies for its continuous variable:
\* the sums over the Cartesian product of the domains of its discrete
\* variables
RECURSIVE Sums(_)
Sums(ds) ==
    IF ds = <<>> THEN {0}
    ELSE {a + b : a \in Domain(Head(ds)), b \in Sums(Tail(ds))}

ImpliedValues(c) ==
    Sums(SelectSeq(generate_standard_repn(constrs[c].body).linear_vars,
                   LAMBDA x : ~is_continuous(x)))

\* the value set of an effectively discrete variable: the intersection of
\* the implied sets of its inducing constraints
ValidValueSet(v) ==
    {a \in UNION {ImpliedValues(c) : c \in Range(effectively_discrete[v])} :
        \A c \in Range(effectively_discrete[v]) : a \in ImpliedValues(c)}

(***************************************************************************)
(* C2: a full pass (_apply_to) returns normally, no exception propagates   *)
(* out of it.  The pass raises TypeError at line 57 on every model.        *)
(***************************************************************************)
C2_PassReturnsNormally == caller = "_apply_to" => exc = "none"

(***************************************************************************)
(* C3: the bilinear map is symmetric: v2 is a key of bilinear_map[v1] iff  *)
(* v1 is a key of bilinear_map[v2], and both entries are the identical     *)
(* set object, whatever the order in which a pair appears.                 *)
(***************************************************************************)
C3_SymmetricSharedSet ==
    \A v1 \in Vars, v2 \in Vars :
        (v1 \in DOMAIN bilinear_map /\ v2 \in DOMAIN bilinear_map[v1]) =>
            /\ v2 \in DOMAIN bilinear_map
            /\ v1 \in DOMAIN bilinear_map[v2]
            /\ bilinear_map[v2][v1] = bilinear_map[v1][v2]

\* a pair met as (v1, v2) in one constraint and as (v2, v1) in another,
\* both constraints in the one set
C3_Witness ==
    /\ AfterBilinear
    /\ \E v1 \in Vars, v2 \in Vars, c1 \in CIds, c2 \in CIds :
          /\ v1 # v2 /\ c1 # c2
          /\ <<v1, v2>> \in Range(quadratic_pairs(c1))
          /\ <<v2, v1>> \in Range(quadratic_pairs(c2))
          /\ Indexed(c1, v2, v1)
          /\ Indexed(c2, v1, v2)

(***************************************************************************)
(* C4: detect_effectively_discrete_vars records constraint c for variable  *)
(* v iff c is an active constraint of the scope (the model and its nested  *)
(* Blocks), has both bounds within the tolerance (a difference equal to    *)
(* the tolerance included), has degree at most 1 and at least two linear   *)
(* terms, and v is its only continuous linear variable; the records are in *)
(* enumeration order, each constraint once, and nothing else is recorded.  *)
(***************************************************************************)
Inducing(c, v) ==
    LET constr == constrs[c]
        lin == Range(LinearVarsOf(constr.body))
    IN /\ constr.active
       /\ constr.parent \in {"model", "Block"}
       /\ constr.lower # None
       /\ constr.upper # None
       /\ Abs(constr.upper[1] - constr.lower[1]) <= equality_tolerance
       /\ \A i \in 1..Len(constr.body) : IsLinearTerm(constr.body[i])
       /\ Len(LinearVarsOf(constr.body)) >= 2
       /\ {x \in lin : x \in Continuous} = {v}

RECURSIVE InducingList(_, _)
InducingList(i, v) ==
    IF i > NumConstraints THEN <<>>
    ELSE IF Inducing(i, v) THEN <<i>> \o InducingList(i + 1, v)
         ELSE InducingList(i + 1, v)

C4_DetectExact ==
    AfterDetect =>
        /\ DOMAIN effectively_discrete \subseteq Vars
        /\ \A v \in DOMAIN effectively_discrete : effectively_discrete[v] # <<>>
        /\ \A v \in Vars :
              Get(effectively_discrete, v, <<>>) = InducingList(1, v)

\* two constraints accumulated for one variable, one of them with a bound
\* difference equal to the tolerance
C4_Witness ==
    /\ AfterDetect
    /\ \E v \in DOMAIN effectively_discrete :
          /\ Len(effectively_discrete[v]) = 2
          /\ \E k \in 1..2 :
                LET constr == constrs[effectively_discrete[v][k]]
                IN Abs(constr.upper[1] - constr.lower[1]) = equality_tolerance

(***************************************************************************)
(* C5: for every effectively discrete variable determine_valid_values      *)
(* produces the intersection of the value sets its inducing constraints    *)
(* imply.  The function produces nothing.                                  *)
(***************************************************************************)
C5_ValidValuesResolved ==
    AfterResolve =>
        \A v \in DOMAIN effectively_discrete :
            /\ valid_values # None
            /\ v \in DOMAIN valid_values[1]
            /\ valid_values[1][v] = ValidValueSet(v)

(***************************************************************************)
(* C6: after a pair (v1, v2) with a non-empty value set of v1 was          *)
(* dispatched for a constraint holding v1*v2 among other terms, the model  *)
(* has a new auxiliary variable and the constraint no longer holds the     *)
(* bilinear term.  _reformulate_case_2 does nothing.                       *)
(***************************************************************************)
C6_GeneralCaseReformulated ==
    pc = "mapped" =>
        \A k \in 1..Len(reformulated) :
            LET v1 == reformulated[k][1]
                v2 == reformulated[k][2]
                c == reformulated[k][3]
            IN (~isolated(c) /\ ValidValueSet(v1) # {}) =>
                  /\ model_vars \ Vars # {}
                  /\ ~HasProduct(c, v1, v2)

(***************************************************************************)
(* C7: a constraint whose only term is the bilinear term is left           *)
(* untouched by _process_bilinear_constraints: the step that handles it    *)
(* changes no constraint and no variable of the model, raises nothing and  *)
(* does not reach _reformulate_case_1.                                     *)
(***************************************************************************)
HandlingIsolated ==
    /\ pc = "process"
    /\ pbc_i <= Len(sets[pbc_args[1].bilinear_constrs])
    /\ isolated(sets[pbc_args[1].bilinear_constrs][pbc_i])

C7_IsolatedUntouched ==
    [][HandlingIsolated =>
          /\ constrs' = constrs
          /\ model_vars' = model_vars
          /\ case_1_calls' = 0
          /\ exc' = "none"
          /\ pc' = "process"]_vars

\* _process_bilinear_constraints returned after handling an isolated term
C7_Witness ==
    /\ pc = "mapped"
    /\ \E k \in 1..Len(reformulated) : isolated(reformulated[k][3])

(***************************************************************************)
(* C8: no variable is a key of its own entry of the bilinear map.  A       *)
(* quadratic term (v, v) is indexed like any other pair.                   *)
(***************************************************************************)
C8_NoSquaredTerm ==
    \A v \in DOMAIN bilinear_map : v \notin DOMAIN bilinear_map[v]

(***************************************************************************)
(* C9 as stated: a constraint of polynomial degree 3, or one whose product *)
(* v1*v2 is only nested inside a transcendental function, is in no set of  *)
(* the bilinear map.                                                       *)
(***************************************************************************)
NestedOnly(c) ==
    \E i \in 1..Len(constrs[c].body) :
        /\ constrs[c].body[i].fn = "exp"
        /\ ~HasProduct(c, constrs[c].body[i].vars[1], constrs[c].body[i].vars[2])

HigherOrder(c) ==
    \/ polynomial_degree(constrs[c].body) = <<3>>
    \/ NestedOnly(c)

C9_NeverIndexed ==
    \A c \in CIds : HigherOrder(c) =>
        \A s \in 1..Len(sets) : c \notin Range(sets[s])

(***************************************************************************)
(* C9 amended: such a constraint is in the set of a pair only if the pair  *)
(* is one of its top-level quadratic terms; with no such term it is in no  *)
(* set, and a pair found only inside a cubic or transcendental term is     *)
(* never a key for it.                                                     *)
(***************************************************************************)
C9_OnlyTopLevelPairs ==
    \A c \in CIds : HigherOrder(c) =>
        \A v1 \in Vars, v2 \in Vars :
            Indexed(c, v1, v2) => HasProduct(c, v1, v2)

\* a constraint with exp(v1*v2) and a top-level term over another pair:
\* indexed under the latter, not under (v1, v2)
C9_Witness ==
    /\ AfterBilinear
    /\ \E c \in CIds, v1 \in Vars, v2 \in Vars, v3 \in Vars :
          /\ NestedOnly(c)
          /\ Exp(<<v1, v2>>) \in Range(constrs[c].body)
          /\ Indexed(c, v1, v3)
          /\ ~Indexed(c, v1, v2)

(***************************************************************************)
(* C10: once _bilinear_expressions has returned, c is in the set of        *)
(* (v1, v2) iff c is an active constraint of the model, of a nested Block  *)
(* or of a Disjunct, its degree is not 0 or 1, and it has a quadratic term *)
(* over v1, v2 in either order; there is one set per unordered pair, and   *)
(* it holds each constraint once.                                          *)
(***************************************************************************)
C10_BilinearMapExact ==
    AfterBilinear =>
        /\ \A c \in CIds, v1 \in Vars, v2 \in Vars :
              Indexed(c, v1, v2) <=>
                 /\ constrs[c].active
                 /\ constrs[c].parent \in {"model", "Block", "Disjunct"}
                 /\ polynomial_degree(constrs[c].body) \notin {<<0>>, <<1>>}
                 /\ HasProduct(c, v1, v2)
        /\ \A s \in 1..Len(sets) : Cardinality(Range(sets[s])) = Len(sets[s])
        /\ DOMAIN bilinear_map \subseteq Vars
        /\ \A v1 \in DOMAIN bilinear_map : DOMAIN bilinear_map[v1] \subseteq Vars
        /\ Len(sets) =
              Cardinality({p \in SUBSET Vars :
                  \E v1 \in DOMAIN bilinear_map :
                      \E v2 \in DOMAIN bilinear_map[v1] : p = {v1, v2}})

\* a pair held by two constraints, one of them inside a Disjunct, and a
\* constraint that holds its pair twice
C10_Witness ==
    /\ AfterBilinear
    /\ \E c1 \in CIds, c2 \in CIds, v1 \in Vars, v2 \in Vars :
          /\ c1 # c2
          /\ constrs[c1].parent = "Disjunct"
          /\ Indexed(c1, v1, v2)
          /\ Indexed(c2, v1, v2)
          /\ Len(SelectSeq(quadratic_pairs(c2),
                           LAMBDA p : p \in {<<v1, v2>>, <<v2, v1>>})) = 2

C12_PassSkipsVariable ==
    (/\ caller = "_apply_to"
     /\ AfterDetect
     /\ \E v \in DOMAIN effectively_discrete : ValidValueSet(v) = {})
    => exc = "none"

InBilinearTerm(v) ==
    \E c \in Range(bilinear_constraints), v2 \in Vars :
        /\ ~skip_constraint(c)
        /\ HasProduct(c, v, v2)

C16_NoEntryNoError ==
    (/\ caller = "_apply_to"
     /\ AfterDetect
     /\ \E v \in DOMAIN effectively_discrete : ~InBilinearTerm(v))
    => exc = "none"

(***************************************************************************)
(* C13: after sets and deletes through the instance followed by restore(), *)
(* every variable modified through the instance has the state it had       *)
(* before the instance first modified it: the same value, the empty value  *)
(* included, and unset if it was unset.  Nothing else changed os.environ.  *)
(***************************************************************************)
C13_RestoreReturnsPriorState ==
    (last_op = "restore" /\ direct_names = {}) =>
        \A n \in ever_touched : os_environ[n] = before_first[n][1]

(***************************************************************************)
(* C14: a restore() changes no variable that was never set or deleted      *)
(* through the instance, changed directly in os.environ or not.            *)
(***************************************************************************)
C14_RestoreTouchesOnlyModified ==
    [][(last_op' = "restore" /\ env_ops' # env_ops) =>
          \A n \in Names \ ever_touched : os_environ'[n] = os_environ[n]]_vars

\* a restore put a modified variable back and left alone a variable that
\* was changed directly and never through the instance
C14_Witness ==
    /\ last_op = "restore"
    /\ env_exc = "none"
    /\ original_state = <<>>
    /\ \E n \in direct_names \ ever_touched : os_environ[n] = <<"c">>
    /\ \E m \in ever_touched :
          /\ before_first[m] = <<(<<"a">>)>>
          /\ os_environ[m] = <<"a">>

\* a step other than a completed restore keeps the items of the tracking
\* map and appends at most the value read for a key before the step
FirstValueKept ==
    [][original_state' = <<>> \/
       /\ Len(original_state') >= Len(original_state)
       /\ \A i \in 1..Len(original_state') :
             IF i <= Len(original_state)
             THEN original_state'[i] = original_state[i]
             ELSE \E key \in Keys :
                     original_state'[i] = <<key, getitem(os_environ, key)>>]_vars

(***************************************************************************)
(* C17: after restore() the tracking map _original_state is empty, so a    *)
(* repeated restore() changes nothing.                                     *)
(***************************************************************************)
C17_TrackingMapCleared == last_op = "restore" => original_state = <<>>
====
